---- MODULE Spec2Model ----
(***************************************************************************)
(* A model of efs: the lock-step multi-file reader (io_/read_swarm.py) and *)
(* the directory scan engine (scan/scan.py).                               *)
(*                                                                         *)
(* Python values are modelled as follows.  A text line is a non-empty      *)
(* string, the empty string "" is what readline() returns at end of file,  *)
(* and None is the distinguished string "None" (no file of the model       *)
(* contains that line).  A file handle is an object of the heap `heap`,    *)
(* identified by its index: [path, pos, closed].                           *)
(***************************************************************************)
EXTENDS Integers, Sequences, FiniteSets, TLC

VARIABLES
    fs,              \* the host's files: path -> [exists, lines]
    files,           \* ReadSwarm._files
    file_handles,    \* ReadSwarm._file_handles: an insertion-ordered dict, <<[k, h], ...>>
    container_type,  \* ReadSwarm._container_type: None or "Rec"
    heap,            \* every file object this reader ever opened
    scope,           \* "out" or "in": whether control is inside a `with` block of the reader
    phase,           \* the outcome of the most recent open()/close(): "new", "opened",
                     \* "open_failed" or "closed"
    entered,         \* the file objects the `with` block in progress opened on entry
    last,            \* the most recent call on the reader and its outcome
    reads,           \* read_line calls made since the most recent open()
    calls,           \* calls made on the reader so far
    tree,            \* the host's directory tree under the scanned path: a set of entries
    host_order,      \* the order in which the host enumerates names
    unlistable,      \* the directory os.scandir cannot list, or None
    recursive,       \* scan_directory's argument `recursive`
    on_entry_found_callback,  \* scan_directory's argument: the callback's name
    raises_on,       \* the entry path on which the callback "raising" raises
    scan_pc,         \* "ready" before the call of scan_directory, "done" after it
    returned,        \* what scan_directory returned
    called,          \* the entry paths the callback was invoked on, in order
    accumulated,     \* the results appended to the `results` lists, in order
    scan_failed,     \* whether an exception reached the top of scan_directory
    cb_factory,      \* the ConfigurableCallbacks factory that was called, or None
    cb_config,       \* its argument: the pattern, or the tuple of extensions
    cb_compiled,     \* how many times the pattern was compiled
    cb_applied,      \* the entries the callback it returned was applied to, with the outcomes
    existing_files,  \* get_next_available_file_name: the paths that are files on the host
    name_path,       \* its argument `path`
    separator,       \* its argument `separator`
    start_integer,   \* its argument `start_integer`
    max_limit,       \* its argument `max_limit`
    step,            \* its argument `step`
    name_pc,         \* "ready" before the call, "done" after it
    name_result,     \* what the call returned or raised
    objects,         \* the Path instances constructed so far: their stored values (_path)
    objects_before,  \* `objects` before the most recent call
    cwd,             \* the process's current working directory
    path_last        \* the most recent call on a Path and its outcome

swarm_vars ==
    <<fs, files, file_handles, container_type, heap, scope, phase, entered, last, reads, calls>>

scan_vars ==
    <<tree, host_order, unlistable, recursive, on_entry_found_callback, raises_on,
      scan_pc, returned, called, accumulated, scan_failed>>

callback_vars == <<cb_factory, cb_config, cb_compiled, cb_applied>>

name_vars ==
    <<existing_files, name_path, separator, start_integer, max_limit, step,
      name_pc, name_result>>

path_vars == <<objects, objects_before, cwd, path_last>>

vars == <<swarm_vars, scan_vars, callback_vars, name_vars, path_vars>>

\* The variables of the components a call of the reader, of the scan, ... leaves alone.
outside_swarm == <<scan_vars, callback_vars, name_vars, path_vars>>

outside_scan == <<swarm_vars, callback_vars, name_vars, path_vars>>

outside_callbacks == <<swarm_vars, scan_vars, name_vars, path_vars>>

outside_name == <<swarm_vars, scan_vars, callback_vars, path_vars>>

outside_path == <<swarm_vars, scan_vars, callback_vars, name_vars>>

\* The components before anything was called on them.
CallbacksIdle ==
    /\ cb_factory = "None"
    /\ cb_config = <<>>
    /\ cb_compiled = 0
    /\ cb_applied = {}

NameIdle ==
    /\ existing_files = {}
    /\ name_path = ""
    /\ separator = ""
    /\ start_integer = 0
    /\ max_limit = 0
    /\ step = 1
    /\ name_pc = "ready"
    /\ name_result = [kind |-> "none", value |-> ""]

PathIdle ==
    /\ objects = <<>>
    /\ objects_before = <<>>
    /\ cwd = ""
    /\ path_last = [op |-> "init", self |-> 0, args |-> <<>>, returns |-> "None",
                    raised |-> "None", n |-> 0]

----------------------------------------------------------------------------
(* Bounds of the model. *)

MaxLines == 3   \* a file has at most this many lines
MaxFiles == 2   \* a reader is given at most this many paths
MaxCalls == 5   \* calls made on one reader

----------------------------------------------------------------------------
(* Python values. *)

None == "None"

\* bool(v) for the values a slot can hold: None and "" are falsy, a line is truthy.
Truthy(v) == v # None /\ v # ""

\* any(items)
any(items) == \E i \in 1..Len(items) : Truthy(items[i])

\* all(items)
all(items) == \A i \in 1..Len(items) : Truthy(items[i])

----------------------------------------------------------------------------
(* The host's files.  Path "m" never exists; "a" holds a prefix of its     *)
(* text below and "b" holds two lines, the second one blank.               *)

Paths == {"a", "b", "m"}

BText == <<"b1\n", "\n">>

Text ==
    [a |-> <<"a1\n", "a2\n", "a3\n", "a4\n", "a5\n", "a6">>,
     b |-> BText,
     m |-> <<>>]

FileOf(p, n) == [exists |-> TRUE, lines |-> SubSeq(Text[p], 1, n)]

NoFile == [exists |-> FALSE, lines |-> <<>>]

\* Tuples of at most n paths.
RECURSIVE TuplesUpTo(_)
TuplesUpTo(n) ==
    IF n = 0 THEN {<<>>}
    ELSE LET S == TuplesUpTo(n - 1)
         IN  S \cup {Append(t, p) : t \in {s \in S : Len(s) = n - 1}, p \in Paths}

----------------------------------------------------------------------------
(* The dict _file_handles: insertion-ordered, a key assigned again keeps   *)
(* its place and takes the new value.                                      *)

DictHas(d, k) == \E i \in 1..Len(d) : d[i].k = k

DictSet(d, k, h) ==
    IF DictHas(d, k)
    THEN [i \in 1..Len(d) |-> IF d[i].k = k THEN [k |-> k, h |-> h] ELSE d[i]]
    ELSE Append(d, [k |-> k, h |-> h])

\* dict.values(), in order
DictValues(d) == [i \in 1..Len(d) |-> d[i].h]

Referenced(h) == \E i \in 1..Len(file_handles) : file_handles[i].h = h

OpenHandles == {h \in 1..Len(heap) : ~heap[h].closed}

----------------------------------------------------------------------------
(* ReadSwarm.open: for f in self._files:                                   *)
(*     self._file_handles[f] = open(f, "r", encoding="utf8")               *)
(* open() of a path that does not exist raises; the handles stored before  *)
(* it stay in the dict.                                                    *)

RECURSIVE open_loop(_, _, _, _, _)
open_loop(fls, i, hp, d, made) ==
    IF i > Len(fls) THEN [heap |-> hp, dict |-> d, exc |-> FALSE, hs |-> made]
    ELSE IF ~fs[fls[i]].exists THEN [heap |-> hp, dict |-> d, exc |-> TRUE, hs |-> made]
    ELSE LET h == Len(hp) + 1
         IN  open_loop(fls, i + 1,
                       Append(hp, [path |-> fls[i], pos |-> 0, closed |-> FALSE]),
                       DictSet(d, fls[i], h),
                       Append(made, h))

open_result == open_loop(files, 1, heap, file_handles, <<>>)

Entry(op, kind, items, hs) == [op |-> op, kind |-> kind, items |-> items, hs |-> hs]

open ==
    /\ calls < MaxCalls
    /\ LET r == open_result
       IN  /\ heap' = r.heap
           /\ file_handles' = r.dict
           /\ last' = Entry("open", IF r.exc THEN "raise" ELSE "ok", <<>>, r.hs)
           /\ phase' = IF r.exc THEN "open_failed" ELSE "opened"
    /\ reads' = 0
    /\ calls' = calls + 1
    /\ UNCHANGED <<fs, files, container_type, scope, entered>>
    /\ UNCHANGED outside_swarm

----------------------------------------------------------------------------
(* ReadSwarm._read_line_or_default(f, default=None):                       *)
(*     try: return f.readline()   except Exception: return default         *)
(* readline() on a closed file raises ValueError; on an open file it       *)
(* returns the next line and advances, or "" at end of file.               *)

\* _read_line_or_default on a file object that reads on after its close
read_line_or_default_after_close(hp, h, default) ==
    IF hp[h].pos < Len(fs[hp[h].path].lines)
    THEN [heap |-> [hp EXCEPT ![h].pos = @ + 1],
          value |-> fs[hp[h].path].lines[hp[h].pos + 1]]
    ELSE [heap |-> hp, value |-> ""]

read_line_or_default(hp, h, default) ==
    IF hp[h].closed THEN [heap |-> hp, value |-> default]
    ELSE IF hp[h].pos < Len(fs[hp[h].path].lines)
    THEN [heap |-> [hp EXCEPT ![h].pos = @ + 1],
          value |-> fs[hp[h].path].lines[hp[h].pos + 1]]
    ELSE [heap |-> hp, value |-> ""]

\* tuple(self._read_line_or_default(f) for f in self._file_handles.values())
RECURSIVE read_items(_, _, _, _)
read_items(vals, i, hp, items) ==
    IF i > Len(vals) THEN [heap |-> hp, items |-> items]
    ELSE LET r == read_line_or_default(hp, vals[i], None)
         IN  read_items(vals, i + 1, r.heap, Append(items, r.value))

\* read_line with `if not all(items)` for `if not any(items)`
read_line_return_all(items) ==
    IF ~all(items) THEN Entry("read_line", "none", <<>>, <<>>)
    ELSE IF container_type # None THEN Entry("read_line", "container", items, <<>>)
    ELSE Entry("read_line", "tuple", items, <<>>)

\* the value read_line returns for the items it read
read_line_return(items) ==
    IF ~any(items) THEN Entry("read_line", "none", <<>>, <<>>)
    ELSE IF container_type # None THEN Entry("read_line", "container", items, <<>>)
    ELSE Entry("read_line", "tuple", items, <<>>)

read_line ==
    /\ calls < MaxCalls
    /\ LET r == read_items(DictValues(file_handles), 1, heap, <<>>)
       IN  /\ heap' = r.heap
           /\ last' = read_line_return(r.items)
    /\ reads' = reads + 1
    /\ calls' = calls + 1
    /\ UNCHANGED <<fs, files, file_handles, container_type, scope, phase, entered>>
    /\ UNCHANGED outside_swarm

----------------------------------------------------------------------------
(* ReadSwarm.close: for f in self._file_handles.values():                  *)
(*     try: f.close()   except Exception: pass                             *)
(* Closing a closed file does nothing.  Closing an open file may fail in   *)
(* the host (`failing` are the handles whose close raises); the file       *)
(* object is released all the same, as io's close does.                    *)

\* f.close(): the file object is closed and has no position any more.
Closed(hp, h) == [hp EXCEPT ![h] = [path |-> @.path, pos |-> 0, closed |-> TRUE]]

\* The loop without its try/except: the first failure ends it.
RECURSIVE close_loop_unguarded(_, _, _, _, _)
close_loop_unguarded(vals, i, hp, failing, failed) ==
    IF i > Len(vals) THEN [heap |-> hp, exc |-> FALSE, failed |-> failed]
    ELSE IF hp[vals[i]].closed
    THEN close_loop_unguarded(vals, i + 1, hp, failing, failed)
    ELSE IF vals[i] \in failing
    THEN [heap |-> Closed(hp, vals[i]), exc |-> TRUE,
          failed |-> Append(failed, vals[i])]
    ELSE close_loop_unguarded(vals, i + 1, Closed(hp, vals[i]),
                              failing, failed)

RECURSIVE close_loop(_, _, _, _, _)
close_loop(vals, i, hp, failing, failed) ==
    IF i > Len(vals) THEN [heap |-> hp, exc |-> FALSE, failed |-> failed]
    ELSE IF hp[vals[i]].closed
    THEN close_loop(vals, i + 1, hp, failing, failed)
    ELSE close_loop(vals, i + 1, Closed(hp, vals[i]), failing,
                    IF vals[i] \in failing THEN Append(failed, vals[i]) ELSE failed)

\* The open handles of the dict: the ones whose close reaches the host.
Closable == {h \in OpenHandles : Referenced(h)}

close ==
    /\ calls < MaxCalls
    /\ \E failing \in SUBSET Closable :
          LET r == close_loop(DictValues(file_handles), 1, heap, failing, <<>>)
          IN  /\ heap' = r.heap
              /\ last' = Entry("close", IF r.exc THEN "raise" ELSE "ok", <<>>, r.failed)
    /\ phase' = "closed"
    /\ calls' = calls + 1
    /\ UNCHANGED <<fs, files, file_handles, container_type, scope, entered, reads>>
    /\ UNCHANGED outside_swarm

----------------------------------------------------------------------------
(* `with reader:` __enter__ is open() and returns self; when it raises     *)
(* the block is not entered and __exit__ is not called.  __exit__ is       *)
(* close() and returns None, so an exception of the body propagates.       *)

enter ==
    /\ calls < MaxCalls
    /\ scope = "out"
    /\ LET r == open_result
       IN  /\ heap' = r.heap
           /\ file_handles' = r.dict
           /\ scope' = IF r.exc THEN "out" ELSE "in"
           /\ phase' = IF r.exc THEN "open_failed" ELSE "opened"
           /\ entered' = IF r.exc THEN <<>> ELSE r.hs
           /\ last' = Entry("enter", IF r.exc THEN "raise" ELSE "ok", <<>>, r.hs)
    /\ reads' = 0
    /\ calls' = calls + 1
    /\ UNCHANGED <<fs, files, container_type>>
    /\ UNCHANGED outside_swarm

\* Control leaves the block, the body having raised or not.
exit ==
    /\ calls < MaxCalls
    /\ scope = "in"
    /\ \E body_raised \in BOOLEAN, failing \in SUBSET Closable :
          LET r == close_loop(DictValues(file_handles), 1, heap, failing, <<>>)
          IN  /\ heap' = r.heap
              /\ last' = Entry("exit", IF r.exc \/ body_raised THEN "raise" ELSE "ok",
                                <<>>, r.failed)
    /\ scope' = "out"
    /\ phase' = "closed"
    /\ calls' = calls + 1
    /\ UNCHANGED <<fs, files, file_handles, container_type, entered, reads>>
    /\ UNCHANGED outside_swarm

----------------------------------------------------------------------------
(* A file object nothing refers to any more (its dict slot was assigned    *)
(* again) is closed when the runtime finalizes it.  Python does not say    *)
(* when that is: at once, later or never.  A collection finalizes every    *)
(* such object.                                                            *)

Unreferenced == {h \in OpenHandles : ~Referenced(h)}

RECURSIVE ClosedAll(_, _)
ClosedAll(hp, hs) ==
    IF hs = {} THEN hp
    ELSE LET h == CHOOSE x \in hs : TRUE IN ClosedAll(Closed(hp, h), hs \ {h})

finalize ==
    /\ Unreferenced # {}
    /\ heap' = ClosedAll(heap, Unreferenced)
    /\ UNCHANGED <<fs, files, file_handles, container_type, scope, phase, entered, last, reads, calls>>
    /\ UNCHANGED outside_swarm

----------------------------------------------------------------------------

Init ==
    /\ \E na \in 0..MaxLines :
          fs = [p \in Paths |-> IF p = "a" THEN FileOf("a", na)
                                ELSE IF p = "b" THEN FileOf("b", Len(BText)) ELSE NoFile]
    /\ files \in TuplesUpTo(MaxFiles)
    /\ file_handles = <<>>
    /\ container_type \in {None, "Rec"}
    /\ heap = <<>>
    /\ scope = "out"
    /\ phase = "new"
    /\ entered = <<>>
    /\ last = Entry("init", "ok", <<>>, <<>>)
    /\ reads = 0
    /\ calls = 0
    /\ tree = {}
    /\ host_order = <<>>
    /\ unlistable = None
    /\ recursive = FALSE
    /\ on_entry_found_callback = None
    /\ raises_on = None
    /\ scan_pc = "ready"
    /\ returned = [kind |-> "list", value |-> <<>>]
    /\ called = <<>>
    /\ accumulated = <<>>
    /\ scan_failed = FALSE
    /\ CallbacksIdle /\ NameIdle /\ PathIdle

Next ==
    \/ open
    \/ read_line
    \/ close
    \/ enter
    \/ exit
    \/ finalize

Spec == Init /\ [][Next]_vars

----------------------------------------------------------------------------
(* The directory scan engine (scan/scan.py).                               *)
(*                                                                         *)
(* The scanned path is Root.  An entry is what os.scandir yields: its      *)
(* name, the directory it is in and whether it is a directory; its path    *)
(* is the directory's path joined with the name.  The host's tree is any   *)
(* set of the entries below that holds, with an entry, the directory it    *)
(* is in.                                                                  *)

Root == "r"

DirEntry(parent, name, is_dir) == [parent |-> parent, name |-> name, is_dir |-> is_dir]

\* os.DirEntry.path
EntryPath(f) == f.parent \o "/" \o f.name

Universe ==
    {DirEntry("r", "x.txt", FALSE), DirEntry("r", "y.log", FALSE),
     DirEntry("r", "sub", TRUE),
     DirEntry("r/sub", "z.txt", FALSE), DirEntry("r/sub", "x.txt", FALSE),
     DirEntry("r/sub", "deep", TRUE),
     DirEntry("r/sub/deep", "w.txt", FALSE)}

Trees ==
    {t \in SUBSET Universe :
        \A f \in t : f.parent = Root \/ \E d \in t : d.is_dir /\ EntryPath(d) = f.parent}

\* The orders in which a host may enumerate the names of a directory.
HostOrders ==
    {<<"deep", "sub", "w.txt", "x.txt", "y.log", "z.txt">>,
     <<"z.txt", "y.log", "x.txt", "w.txt", "sub", "deep">>,
     <<"x.txt", "sub", "y.log", "z.txt", "deep", "w.txt">>}

Children(path_) == {f \in tree : f.parent = path_}

\* os.scandir(path_): the entries of the directory, in the host's order
scandir(path_) ==
    LET names == SelectSeq(host_order, LAMBDA n : \E f \in Children(path_) : f.name = n)
    IN  [i \in 1..Len(names) |-> CHOOSE f \in Children(path_) : f.name = names[i]]

----------------------------------------------------------------------------
(* The callbacks.  A callback returns a value or raises: [exc, value].     *)

Returns(v) == [exc |-> FALSE, value |-> v]

Raises == [exc |-> TRUE, value |-> None]

\* PredefinedCallbacks.directories_only
directories_only(f) == IF f.is_dir THEN EntryPath(f) ELSE None

\* files_only without its test: it passes every entry
files_only_every_entry(f) == EntryPath(f)

\* PredefinedCallbacks.files_only
files_only(f) == IF ~f.is_dir THEN EntryPath(f) ELSE None

\* PredefinedCallbacks.file_names_only
file_names_only(f) == IF ~f.is_dir THEN f.name ELSE None

\* a default callback that passes files only
default_callback_files(f) == IF ~f.is_dir THEN EntryPath(f) ELSE None

\* on_entry_found_callback = lambda w, x, y, z: w
default_callback(f) == EntryPath(f)

\* The callback named cb, applied to entry f.  None is "no callback supplied";
\* "blank" and "raising" are callbacks of the caller's: one returns "" for
\* every entry, the other returns the entry's path and raises on raises_on.
on_entry_found(cb, f) ==
    CASE cb = None -> Returns(default_callback(f))
      [] cb = "directories_only" -> Returns(directories_only(f))
      [] cb = "files_only" -> Returns(files_only(f))
      [] cb = "file_names_only" -> Returns(file_names_only(f))
      [] cb = "blank" -> Returns("")
      [] cb = "raising" -> IF EntryPath(f) = raises_on THEN Raises ELSE Returns(EntryPath(f))

Callbacks == {None, "directories_only", "files_only", "file_names_only", "blank", "raising"}

----------------------------------------------------------------------------
(* scan_directory._recursion.  An outcome is [exc, results, called]:       *)
(* whether an exception left the frame, the results appended so far (in    *)
(* this frame and the frames below it) and the entries the callback was    *)
(* invoked on.                                                             *)

Outcome(exc, results, called_) == [exc |-> exc, results |-> results, called |-> called_]

\* `if result:` for `if result is not None:`
is_truthy(result) == Truthy(result)

\* if result is not None
is_not_None(result) == result # None

RECURSIVE recursion(_, _)
RECURSIVE recursion_loop(_, _, _, _)

\* The body of the loop with the callback invoked before the recursion.
recursion_step_preorder(cb, f, acc) ==
    LET result == on_entry_found(cb, f)
        called1 == Append(acc.called, EntryPath(f))
    IN  IF result.exc THEN Outcome(TRUE, acc.results, called1)
        ELSE LET results1 == IF is_not_None(result.value)
                             THEN Append(acc.results, result.value) ELSE acc.results
                 sub == IF recursive /\ f.is_dir THEN recursion(cb, EntryPath(f))
                        ELSE Outcome(FALSE, <<>>, <<>>)
             IN  Outcome(sub.exc, results1 \o sub.results, called1 \o sub.called)

\* The body of the loop, for entry f:
\*     if recursive and f.is_dir(): results.extend(_recursion(f.path))
\*     result = on_entry_found_callback(f.path, f.is_dir(), f, kwargs)
\*     if result is not None: results.append(result)
recursion_step(cb, f, acc) ==
    LET sub == IF recursive /\ f.is_dir THEN recursion(cb, EntryPath(f))
               ELSE Outcome(FALSE, <<>>, <<>>)
        results1 == acc.results \o sub.results
        called1 == acc.called \o sub.called
    IN  IF sub.exc THEN Outcome(TRUE, results1, called1)
        ELSE LET result == on_entry_found(cb, f)
             IN  IF result.exc THEN Outcome(TRUE, results1, Append(called1, EntryPath(f)))
                 ELSE Outcome(FALSE,
                              IF is_not_None(result.value)
                              THEN Append(results1, result.value) ELSE results1,
                              Append(called1, EntryPath(f)))

recursion_loop(cb, entries, i, acc) ==
    IF i > Len(entries) THEN acc
    ELSE LET acc1 == recursion_step(cb, entries[i], acc)
         IN  IF acc1.exc THEN acc1 ELSE recursion_loop(cb, entries, i + 1, acc1)

\* _recursion(path_); os.scandir raises on a directory it cannot list
recursion(cb, path_) ==
    IF path_ = unlistable THEN Outcome(TRUE, <<>>, <<>>)
    ELSE recursion_loop(cb, scandir(path_), 1, Outcome(FALSE, <<>>, <<>>))

\* The decorator that handed back the results gathered before the failure.
catch_partial(outcome) == [kind |-> "list", value |-> outcome.results]

\* @catch(default_on_error_behavior=OnError.LOG): an exception of the call is
\* logged and the decorator's value_to_return_on_error, which scan_directory
\* does not set, is returned in place of the function's result.
catch(outcome) ==
    IF outcome.exc THEN [kind |-> "value_to_return_on_error", value |-> <<>>]
    ELSE [kind |-> "list", value |-> outcome.results]

scan_directory ==
    /\ scan_pc = "ready"
    /\ LET outcome == recursion(on_entry_found_callback, Root)
       IN  /\ returned' = catch(outcome)
           /\ called' = outcome.called
           /\ accumulated' = outcome.results
           /\ scan_failed' = outcome.exc
    /\ scan_pc' = "done"
    /\ UNCHANGED <<tree, host_order, unlistable, recursive, on_entry_found_callback, raises_on>>
    /\ UNCHANGED outside_scan

Directories == {Root} \cup {EntryPath(f) : f \in {g \in tree : g.is_dir}}

ScanInit ==
    /\ tree \in Trees
    /\ host_order \in HostOrders
    /\ recursive \in BOOLEAN
    /\ on_entry_found_callback \in Callbacks
    /\ unlistable \in {None} \cup Directories
    /\ raises_on \in IF on_entry_found_callback = "raising" /\ unlistable = None
                     THEN {EntryPath(f) : f \in tree} ELSE {None}
    /\ scan_pc = "ready"
    /\ returned = [kind |-> "list", value |-> <<>>]
    /\ called = <<>>
    /\ accumulated = <<>>
    /\ scan_failed = FALSE
    /\ fs = [p \in Paths |-> NoFile]
    /\ files = <<>>
    /\ file_handles = <<>>
    /\ container_type = None
    /\ heap = <<>>
    /\ scope = "out"
    /\ phase = "new"
    /\ entered = <<>>
    /\ last = Entry("init", "ok", <<>>, <<>>)
    /\ reads = 0
    /\ calls = 0
    /\ CallbacksIdle /\ NameIdle /\ PathIdle

ScanNext ==
    \/ scan_directory

ScanSpec == ScanInit /\ [][ScanNext]_vars

----------------------------------------------------------------------------
(* The reader and the scan before anything was called on them, for the     *)
(* specifications of the other components.                                 *)

SwarmIdle ==
    /\ fs = [p \in Paths |-> NoFile]
    /\ files = <<>>
    /\ file_handles = <<>>
    /\ container_type = None
    /\ heap = <<>>
    /\ scope = "out"
    /\ phase = "new"
    /\ entered = <<>>
    /\ last = Entry("init", "ok", <<>>, <<>>)
    /\ reads = 0
    /\ calls = 0

ScanIdle ==
    /\ tree = {}
    /\ host_order = <<>>
    /\ unlistable = None
    /\ recursive = FALSE
    /\ on_entry_found_callback = None
    /\ raises_on = None
    /\ scan_pc = "ready"
    /\ returned = [kind |-> "list", value |-> <<>>]
    /\ called = <<>>
    /\ accumulated = <<>>
    /\ scan_failed = FALSE

----------------------------------------------------------------------------
(* ConfigurableCallbacks (scan/scan.py): the factories match_pattern and   *)
(* file_extensions, and the callbacks they return applied to entries.      *)

\* str.endswith
EndsWith(str, suffix) ==
    /\ Len(suffix) <= Len(str)
    /\ SubSeq(str, Len(str) - Len(suffix) + 1, Len(str)) = suffix

\* str.startswith
StartsWith(str, prefix) ==
    /\ Len(prefix) <= Len(str)
    /\ SubSeq(str, 1, Len(prefix)) = prefix

\* The entries the callbacks are applied to.
CallbackEntries ==
    {DirEntry("r", "a.txt", FALSE), DirEntry("r", "b.md", FALSE),
     DirEntry("r", "c.py", FALSE), DirEntry("r", "txt", FALSE),
     DirEntry("r", "docs.md", TRUE), DirEntry("r", "a.txt.bak", FALSE)}

\* The patterns given to match_pattern: literal text, no regex operator in it.
Patterns == {"a", "b.md", "txt", "z"}

\* The tuples of extensions given to file_extensions.
ExtensionTuples ==
    {<<>>, <<".txt">>, <<".txt", ".md">>, <<".md", ".txt">>, <<".py", ".py">>,
     <<"/txt">>, <<".bak", ".txt">>}

\* _match_pattern(entry_path, is_directory, dir_entry, kwargs_dict):
\*     name = dir_entry.name
\*     if compiled_pattern.match(compiled_pattern): return entry_path
\*     return None
\* Pattern.match takes a string; given the compiled pattern itself it raises
\* TypeError, whatever the pattern and the entry are.
match_pattern_callback(pattern, f) == Raises

\* _file_extensions with the `return None` inside the loop: only the first
\* extension is tried.
RECURSIVE file_extensions_first_only(_, _, _)
file_extensions_first_only(extensions, i, f) ==
    IF i > Len(extensions) THEN None
    ELSE IF EndsWith(f.name, extensions[i]) THEN EntryPath(f)
    ELSE None

\* _file_extensions(entry_path, is_directory, dir_entry, kwargs_dict):
\*     for extension in extensions:
\*         if dir_entry.name.endswith(extension): return entry_path
\*     return None
RECURSIVE file_extensions_loop(_, _, _)
file_extensions_loop(extensions, i, f) ==
    IF i > Len(extensions) THEN None
    ELSE IF EndsWith(f.name, extensions[i]) THEN EntryPath(f)
    ELSE file_extensions_loop(extensions, i + 1, f)

file_extensions_callback(extensions, f) == Returns(file_extensions_loop(extensions, 1, f))

\* ConfigurableCallbacks.match_pattern(pattern): compiles the pattern and
\* returns _match_pattern.
match_pattern ==
    /\ cb_factory = "None"
    /\ \E pattern \in Patterns : cb_config' = pattern
    /\ cb_factory' = "match_pattern"
    /\ cb_compiled' = cb_compiled + 1
    /\ UNCHANGED cb_applied
    /\ UNCHANGED outside_callbacks

\* ConfigurableCallbacks.file_extensions(*extensions): returns _file_extensions.
file_extensions ==
    /\ cb_factory = "None"
    /\ \E extensions \in ExtensionTuples : cb_config' = extensions
    /\ cb_factory' = "file_extensions"
    /\ UNCHANGED <<cb_compiled, cb_applied>>
    /\ UNCHANGED outside_callbacks

Applied(f, outcome) == [entry |-> f, exc |-> outcome.exc, value |-> outcome.value]

\* The returned callback is applied to an entry it was not applied to yet.
apply_callback ==
    /\ cb_factory # "None"
    /\ \E f \in CallbackEntries :
          /\ \A a \in cb_applied : a.entry # f
          /\ cb_applied' = cb_applied \cup
                {Applied(f, IF cb_factory = "match_pattern"
                            THEN match_pattern_callback(cb_config, f)
                            ELSE file_extensions_callback(cb_config, f))}
    /\ UNCHANGED <<cb_factory, cb_config, cb_compiled>>
    /\ UNCHANGED outside_callbacks

CallbackInit == SwarmIdle /\ ScanIdle /\ CallbacksIdle /\ NameIdle /\ PathIdle

CallbackNext ==
    \/ match_pattern
    \/ file_extensions
    \/ apply_callback

CallbackSpec == CallbackInit /\ [][CallbackNext]_vars

----------------------------------------------------------------------------
(* efs.core.path_core: the pure path functions, on path strings. *)

Separator == {"/", "\\"}

\* the last position of a character of chars among the first i of str, 0 if none
RECURSIVE LastIndexOf(_, _, _)
LastIndexOf(str, chars, i) ==
    IF i = 0 THEN 0
    ELSE IF SubSeq(str, i, i) \in chars THEN i
    ELSE LastIndexOf(str, chars, i - 1)

Contains(str, chars) == LastIndexOf(str, chars, Len(str)) # 0

\* the segments of str from position i on; current is the segment being read
RECURSIVE split_from(_, _, _)
split_from(str, i, current) ==
    IF i > Len(str)
    THEN IF current = "" THEN <<>> ELSE <<current>>
    ELSE IF SubSeq(str, i, i) \in Separator
    THEN (IF current = "" THEN <<>> ELSE <<current>>) \o split_from(str, i + 1, "")
    ELSE split_from(str, i + 1, current \o SubSeq(str, i, i))

\* split: the non-empty segments, in order
split(path) == split_from(path, 1, "")

is_absolute(path) == Len(path) >= 1 /\ SubSeq(path, 1, 1) \in Separator

is_unix_like(path) == Contains(path, {"/"})

is_windows_like(path) == Contains(path, {"\\"})

\* the separator a path is written with
dialect(path) == IF is_windows_like(path) /\ ~is_unix_like(path) THEN "\\" ELSE "/"

\* the segments written with the separator sep
RECURSIVE unsplit(_, _)
unsplit(nodes, sep) ==
    IF nodes = <<>> THEN ""
    ELSE IF Len(nodes) = 1 THEN nodes[1]
    ELSE nodes[1] \o sep \o unsplit(Tail(nodes), sep)

\* the path of the given segments, in the dialect and rootedness of `like`
rebuild(like, nodes) ==
    (IF is_absolute(like) THEN dialect(like) ELSE "") \o unsplit(nodes, dialect(like))

\* join, of two segments: one separator between them, never two
join(base, part) ==
    IF base = "" THEN part
    ELSE IF SubSeq(base, Len(base), Len(base)) \in Separator THEN base \o part
    ELSE base \o "/" \o part

\* join(base, *parts): the parts are appended in their order
RECURSIVE join_all(_, _)
join_all(base, parts) ==
    IF parts = <<>> THEN base ELSE join_all(join(base, parts[1]), Tail(parts))

\* every separator of str from position i on rewritten to sep
RECURSIVE convert_from(_, _, _)
convert_from(str, i, sep) ==
    IF i > Len(str) THEN ""
    ELSE (IF SubSeq(str, i, i) \in Separator THEN sep ELSE SubSeq(str, i, i))
         \o convert_from(str, i + 1, sep)

convert_path_to_windows(path) == convert_from(path, 1, "\\")

convert_path_to_unix(path) == convert_from(path, 1, "/")

\* get_file_path: the containing directory portion
get_file_path(path) == SubSeq(path, 1, LastIndexOf(path, Separator, Len(path)) - 1)

get_file_name_with_extension(path) ==
    SubSeq(path, LastIndexOf(path, Separator, Len(path)) + 1, Len(path))

\* the position of the dot that starts the extension of a file name, 0 when
\* it has none; a name that only starts with a dot has none
extension_dot(file_name) ==
    LET dot == LastIndexOf(file_name, {"."}, Len(file_name))
    IN  IF dot <= 1 THEN 0 ELSE dot

get_file_extension(path) ==
    LET file_name == get_file_name_with_extension(path)
    IN  IF extension_dot(file_name) = 0 THEN ""
        ELSE SubSeq(file_name, extension_dot(file_name) + 1, Len(file_name))

get_file_name_no_extension(path) ==
    LET file_name == get_file_name_with_extension(path)
    IN  IF extension_dot(file_name) = 0 THEN file_name
        ELSE SubSeq(file_name, 1, extension_dot(file_name) - 1)

\* get_path_parts_and_extension: (directory, base name, extension); the
\* extension is "" when the name has none
get_path_parts_and_extension(path) ==
    <<get_file_path(path), get_file_name_no_extension(path), get_file_extension(path)>>

get_path_parts_no_extension(path) ==
    <<get_file_path(path), get_file_name_no_extension(path)>>

\* remove_extension: only the last extension goes
remove_extension(path) ==
    IF extension_dot(get_file_name_with_extension(path)) = 0 THEN path
    ELSE SubSeq(path, 1, Len(path) - Len(get_file_extension(path)) - 1)

replace_extension(path, with_) == remove_extension(path) \o "." \o with_

\* the syntactic test of remove_file_name_from_path_if_is_file: the last
\* segment is a file name when it has an extension
remove_file_name_from_path_if_is_file(path) ==
    IF get_file_extension(path) = "" THEN path ELSE get_file_path(path)

\* get_parent: strips exactly one trailing segment; a root stays the root
get_parent(path) ==
    LET nodes == split(path)
    IN  IF nodes = <<>> THEN path
        ELSE rebuild(path, SubSeq(nodes, 1, Len(nodes) - 1))

IndexError == "IndexError"

\* get_node_at: the segment at a zero-based index, IndexError out of range
get_node_at(path, index) ==
    IF index < 0 \/ index >= Len(split(path)) THEN IndexError
    ELSE split(path)[index + 1]

\* set_node_at: the segment at a zero-based index replaced, IndexError out of range
set_node_at(path, index, new_name) ==
    IF index < 0 \/ index >= Len(split(path)) THEN IndexError
    ELSE rebuild(path, [split(path) EXCEPT ![index + 1] = new_name])

\* the first position of node_name in nodes from position i on, 0 if none
RECURSIVE first_index(_, _, _)
first_index(nodes, node_name, i) ==
    IF i > Len(nodes) THEN 0
    ELSE IF nodes[i] = node_name THEN i
    ELSE first_index(nodes, node_name, i + 1)

\* the last position of node_name among the first i of nodes, 0 if none
RECURSIVE last_index(_, _, _)
last_index(nodes, node_name, i) ==
    IF i = 0 THEN 0
    ELSE IF nodes[i] = node_name THEN i
    ELSE last_index(nodes, node_name, i - 1)

\* strip_path_up_to_node_name: the sub-path after the first occurrence of
\* node_name from the start, with the node itself when inclusive
strip_path_up_to_node_name(path, node_name, inclusive) ==
    LET nodes == split(path)
        at == first_index(nodes, node_name, 1)
    IN  IF at = 0 THEN path
        ELSE unsplit(SubSeq(nodes, IF inclusive THEN at ELSE at + 1, Len(nodes)),
                     dialect(path))

\* strip_path_up_to_node_name_reversed: the sub-path before the first
\* occurrence of node_name from the end, with the node itself when inclusive
strip_path_up_to_node_name_reversed(path, node_name, inclusive) ==
    LET nodes == split(path)
        at == last_index(nodes, node_name, Len(nodes))
    IN  IF at = 0 THEN path
        ELSE rebuild(path, SubSeq(nodes, 1, IF inclusive THEN at ELSE at - 1))

\* the segments with every "." dropped and every ".." applied
RECURSIVE resolve(_, _)
resolve(nodes, done) ==
    IF nodes = <<>> THEN done
    ELSE IF nodes[1] = "." THEN resolve(Tail(nodes), done)
    ELSE IF nodes[1] = ".."
    THEN resolve(Tail(nodes), SubSeq(done, 1, Len(done) - 1))
    ELSE resolve(Tail(nodes), Append(done, nodes[1]))

\* expand_relative_path: the canonical absolute form, against the working
\* directory working_directory when the path is relative
expand_relative_path(path, working_directory) ==
    LET base == IF is_absolute(path) THEN <<>> ELSE split(working_directory)
    IN  "/" \o unsplit(resolve(base \o split(path), <<>>), "/")

\* get_file_path_absolute: get_file_path, resolved against the working directory
get_file_path_absolute(path, working_directory) ==
    expand_relative_path(get_file_path(path), working_directory)

\* the entries of the host that find_parent_sibling_from_path can find
HostSiblings == {"/w/lib", "/lib"}

\* find_parent_sibling_from_path from the directory of the given segments
\* upward: the first level that holds sibling_name, None at the root
RECURSIVE find_parent_sibling_from(_, _)
find_parent_sibling_from(nodes, sibling_name) ==
    LET candidate == "/" \o unsplit(Append(nodes, sibling_name), "/")
    IN  IF candidate \in HostSiblings THEN candidate
        ELSE IF nodes = <<>> THEN None
        ELSE find_parent_sibling_from(SubSeq(nodes, 1, Len(nodes) - 1), sibling_name)

find_parent_sibling_from_path(path, sibling_name) ==
    find_parent_sibling_from(split(path), sibling_name)

get_user_directory == "/home"

get_temp_directory == "/tmp"

----------------------------------------------------------------------------
(* get_next_available_file_name (file_system/_fs.py). *)

\* the largest value of max_limit, of start_integer and of step
MaxLimit == 7

MaxStart == 5

MaxStep == 2

\* the values of the argument `path`
NamePaths == {"f.txt", "d/f.txt"}

Separators == {"", "_"}

\* is_file: os.path.isfile on the host
is_file(path) == path \in existing_files

\* path_candidate for the integer i
path_candidate(path, sep, i) ==
    LET parts == get_path_parts_and_extension(path)
    IN  join(parts[1], parts[2] \o sep \o ToString(i) \o "." \o parts[3])

\* the loop that stops one integer late: it tries max_limit itself
RECURSIVE name_loop_inclusive(_)
name_loop_inclusive(i) ==
    IF i > max_limit
    THEN [kind |-> "OverflowError", value |-> name_path]
    ELSE IF ~is_file(path_candidate(name_path, separator, i))
    THEN [kind |-> "return", value |-> path_candidate(name_path, separator, i)]
    ELSE name_loop_inclusive(i + step)

\* for i in range(start_integer, max_limit, step), from the integer i on, and
\* the raise after the loop
RECURSIVE name_loop(_)
name_loop(i) ==
    IF i >= max_limit
    THEN [kind |-> "OverflowError", value |-> name_path]
    ELSE IF ~is_file(path_candidate(name_path, separator, i))
    THEN [kind |-> "return", value |-> path_candidate(name_path, separator, i)]
    ELSE name_loop(i + step)

get_next_available_file_name ==
    /\ name_pc = "ready"
    /\ name_pc' = "done"
    /\ name_result' = name_loop(start_integer)
    /\ UNCHANGED <<existing_files, name_path, separator, start_integer, max_limit, step>>
    /\ UNCHANGED outside_name

\* the files the host may hold: the path itself and its numbered neighbours
HostFiles(path, sep) ==
    {path} \cup {path_candidate(path, sep, i) : i \in 0..MaxLimit}

NameInit ==
    /\ SwarmIdle /\ ScanIdle /\ CallbacksIdle /\ PathIdle
    /\ name_path \in NamePaths
    /\ separator \in Separators
    /\ existing_files \in SUBSET HostFiles(name_path, separator)
    /\ start_integer \in 0..MaxStart
    /\ max_limit \in 0..MaxLimit
    /\ step \in 1..MaxStep
    /\ name_pc = "ready"
    /\ name_result = [kind |-> "none", value |-> ""]

NameNext == get_next_available_file_name

NameSpec == NameInit /\ [][NameNext]_vars

----------------------------------------------------------------------------
(* The Path class (path/path_class.py). *)

\* the most Path instances constructed, and the most calls in one run
MaxObjects == 2

MaxPathCalls == 3

\* the values of the arguments
InitialPaths == {"", "/w/a/b.txt", "a\\..\\c.tar.gz"}

WorkingDirectories == {"/w"}

SiblingNames == {"lib", "etc"}

Elements == {<<>>, <<"x">>, <<"x", "y.md">>}

NodeNames == {"a", "z"}

Indexes == {0, 2}

\* a reference to the instance at the given place of `objects`
Instance(self) == <<"Path", self>>

Call(op, self, args, returns, raised, n) ==
    [op |-> op, self |-> self, args |-> args, returns |-> returns,
     raised |-> raised, n |-> n]

\* a constructor that stores whatever it is given
Path_init_unchecked(initial_path) == [raised |-> None, path |-> initial_path]

\* Path.__init__
Path_init(initial_path) ==
    IF initial_path = None
    THEN [raised |-> "ValueError", path |-> None]
    ELSE [raised |-> None, path |-> initial_path]

\* cls(initial_path): a new instance, unless __init__ raises
construct(op, args, initial_path) ==
    LET made == Path_init(initial_path)
    IN  /\ Len(objects) < MaxObjects
        /\ path_last.n < MaxPathCalls
        /\ objects_before' = objects
        /\ objects' = IF made.raised = None THEN Append(objects, made.path) ELSE objects
        /\ path_last' = IF made.raised = None
                        THEN Call(op, Len(objects) + 1, args,
                                  Instance(Len(objects) + 1), None, path_last.n + 1)
                        ELSE Call(op, 0, args, None, made.raised, path_last.n + 1)
        /\ UNCHANGED cwd
        /\ UNCHANGED outside_path

Path ==
    \E initial_path \in InitialPaths \cup {None} :
        construct("Path", <<initial_path>>, initial_path)

from_user_directory == construct("from_user_directory", <<>>, get_user_directory)

from_temp_directory == construct("from_temp_directory", <<>>, get_temp_directory)

from_current_working_directory ==
    construct("from_current_working_directory", <<>>, cwd)

from_find_parent_sibling_in_path ==
    \E path \in InitialPaths, sibling_name \in SiblingNames :
        construct("from_find_parent_sibling_in_path", <<path, sibling_name>>,
                  find_parent_sibling_from_path(path, sibling_name))

\* a property or a getter: return f(self._path), unless f raises
read(op, self, args, value, raised) ==
    /\ path_last.n < MaxPathCalls
    /\ objects_before' = objects
    /\ path_last' = IF raised = None
                    THEN Call(op, self, args, value, None, path_last.n + 1)
                    ELSE Call(op, self, args, None, raised, path_last.n + 1)
    /\ UNCHANGED <<objects, cwd>>
    /\ UNCHANGED outside_path

Properties ==
    {"path", "split", "is_absolute", "is_unix_like", "is_windows_like",
     "get_file_path", "get_file_path_absolute", "get_file_extension",
     "get_file_name_with_extension", "get_file_name_no_extension",
     "get_path_parts_and_extension", "get_path_parts_no_extension"}

property_value(name, path) ==
    CASE name = "path" -> path
      [] name = "split" -> split(path)
      [] name = "is_absolute" -> is_absolute(path)
      [] name = "is_unix_like" -> is_unix_like(path)
      [] name = "is_windows_like" -> is_windows_like(path)
      [] name = "get_file_path" -> get_file_path(path)
      [] name = "get_file_path_absolute" -> get_file_path_absolute(path, cwd)
      [] name = "get_file_extension" -> get_file_extension(path)
      [] name = "get_file_name_with_extension" -> get_file_name_with_extension(path)
      [] name = "get_file_name_no_extension" -> get_file_name_no_extension(path)
      [] name = "get_path_parts_and_extension" -> get_path_parts_and_extension(path)
      [] name = "get_path_parts_no_extension" -> get_path_parts_no_extension(path)

Path_property ==
    \E self \in 1..Len(objects), name \in Properties :
        read(name, self, <<>>, property_value(name, objects[self]), None)

Path_get_node_at ==
    \E self \in 1..Len(objects), index \in Indexes :
        read("get_node_at", self, <<index>>, get_node_at(objects[self], index),
             IF get_node_at(objects[self], index) = IndexError THEN IndexError ELSE None)

Path_find_parent_sibling_from_path ==
    \E self \in 1..Len(objects), sibling_name \in SiblingNames :
        read("find_parent_sibling_from_path", self, <<sibling_name>>,
             find_parent_sibling_from_path(objects[self], sibling_name), None)

\* a modifier that computes the value and returns self without storing it
modify_not_stored(op, self, args, value, working_directory) ==
    /\ path_last.n < MaxPathCalls
    /\ objects_before' = objects
    /\ objects' = objects
    /\ cwd' = working_directory
    /\ path_last' = IF value = IndexError
                    THEN Call(op, self, args, None, IndexError, path_last.n + 1)
                    ELSE Call(op, self, args, Instance(self), None, path_last.n + 1)
    /\ UNCHANGED outside_path

\* a modifier: self._path = value; return self. Nothing is stored when the
\* pure function raises.
modify(op, self, args, value, working_directory) ==
    /\ path_last.n < MaxPathCalls
    /\ objects_before' = objects
    /\ objects' = IF value = IndexError THEN objects
                  ELSE [objects EXCEPT ![self] = value]
    /\ cwd' = working_directory
    /\ path_last' = IF value = IndexError
                    THEN Call(op, self, args, None, IndexError, path_last.n + 1)
                    ELSE Call(op, self, args, Instance(self), None, path_last.n + 1)
    /\ UNCHANGED outside_path

Path_join ==
    \E self \in 1..Len(objects), elements \in Elements :
        modify("join", self, elements, join_all(objects[self], elements), cwd)

Path_convert_path_to_windows ==
    \E self \in 1..Len(objects) :
        modify("convert_path_to_windows", self, <<>>,
               convert_path_to_windows(objects[self]), cwd)

Path_convert_path_to_unix ==
    \E self \in 1..Len(objects) :
        modify("convert_path_to_unix", self, <<>>,
               convert_path_to_unix(objects[self]), cwd)

Path_remove_file_name_from_path_if_is_file ==
    \E self \in 1..Len(objects) :
        modify("remove_file_name_from_path_if_is_file", self, <<>>,
               remove_file_name_from_path_if_is_file(objects[self]), cwd)

Path_expand_relative_path ==
    \E self \in 1..Len(objects) :
        modify("expand_relative_path", self, <<>>,
               expand_relative_path(objects[self], cwd), cwd)

\* temp = self._path; self._path = get_current_working_directory();
\* set_current_working_directory(temp)
Path_swap_current_working_directory ==
    \E self \in 1..Len(objects) :
        modify("swap_current_working_directory", self, <<>>, cwd, objects[self])

Path_set_as_current_working_directory ==
    \E self \in 1..Len(objects) :
        modify("set_as_current_working_directory", self, <<>>,
               objects[self], objects[self])

Path_remove_extension ==
    \E self \in 1..Len(objects) :
        modify("remove_extension", self, <<>>, remove_extension(objects[self]), cwd)

Path_move_to_parent ==
    \E self \in 1..Len(objects) :
        modify("move_to_parent", self, <<>>, get_parent(objects[self]), cwd)

Path_strip_path_up_to_node_name ==
    \E self \in 1..Len(objects), node_name \in NodeNames, inclusive \in BOOLEAN :
        modify("strip_path_up_to_node_name", self, <<node_name, inclusive>>,
               strip_path_up_to_node_name(objects[self], node_name, inclusive), cwd)

Path_strip_path_up_to_node_name_reversed ==
    \E self \in 1..Len(objects), node_name \in NodeNames, inclusive \in BOOLEAN :
        modify("strip_path_up_to_node_name_reversed", self, <<node_name, inclusive>>,
               strip_path_up_to_node_name_reversed(objects[self], node_name, inclusive),
               cwd)

Path_replace_extension ==
    \E self \in 1..Len(objects), with_ \in {"md"} :
        modify("replace_extension", self, <<with_>>,
               replace_extension(objects[self], with_), cwd)

Path_set_node_at ==
    \E self \in 1..Len(objects), index \in Indexes, new_name \in {"n"} :
        modify("set_node_at", self, <<index, new_name>>,
               set_node_at(objects[self], index, new_name), cwd)

PathInit ==
    /\ SwarmIdle /\ ScanIdle /\ CallbacksIdle /\ NameIdle
    /\ objects = <<>>
    /\ objects_before = <<>>
    /\ cwd \in WorkingDirectories
    /\ path_last = Call("init", 0, <<>>, None, None, 0)

PathNext ==
    \/ Path
    \/ from_user_directory
    \/ from_temp_directory
    \/ from_current_working_directory
    \/ from_find_parent_sibling_in_path
    \/ Path_property
    \/ Path_get_node_at
    \/ Path_find_parent_sibling_from_path
    \/ Path_join
    \/ Path_convert_path_to_windows
    \/ Path_convert_path_to_unix
    \/ Path_remove_file_name_from_path_if_is_file
    \/ Path_expand_relative_path
    \/ Path_swap_current_working_directory
    \/ Path_set_as_current_working_directory
    \/ Path_remove_extension
    \/ Path_move_to_parent
    \/ Path_strip_path_up_to_node_name
    \/ Path_strip_path_up_to_node_name_reversed
    \/ Path_replace_extension
    \/ Path_set_node_at

PathSpec == PathInit /\ [][PathNext]_vars

----------------------------------------------------------------------------
(* The reader's claims. *)

NoDuplicates(t) == \A i, j \in 1..Len(t) : t[i] = t[j] => i = j

LineCount(p) == Len(fs[p].lines)

\* max(line counts) over the requested files, 0 when there are none
MaxLineCount ==
    IF files = <<>> THEN 0
    ELSE CHOOSE n \in {LineCount(files[i]) : i \in 1..Len(files)} :
            \A i \in 1..Len(files) : LineCount(files[i]) <= n

\* What slot i holds after the reads-th read_line since open(): that line of
\* file i, or `eof` once file i has no such line.
ExpectedSlot(i, eof) ==
    IF reads <= LineCount(files[i]) THEN fs[files[i]].lines[reads] ELSE eof

ReadRecord == phase = "opened" /\ last.op = "read_line" /\ last.kind # "none"

\* C1: read_line over files of unequal length does not fail, and in the record
\* it returns the slot of each exhausted file holds the no-value marker None
\* while the other slots hold their lines (3 and 2 lines: the third record is
\* (line3, None)).
C1_ExhaustedSlotIsNone ==
    (ReadRecord /\ NoDuplicates(files)) =>
        /\ Len(last.items) = Len(files)
        /\ \A i \in 1..Len(files) : last.items[i] = ExpectedSlot(i, None)

\* C2: on an opened reader the k-th read_line returns the absent result exactly
\* when k exceeds max(line counts): max(line counts) records come first, and
\* every later call is absent too.
C2_EndOfStream ==
    (phase = "opened" /\ last.op = "read_line") =>
        (last.kind = "none" <=> reads > MaxLineCount)

\* C2's case: files of 1 and 2 lines, and the second absent result in a row.
C2_Witness ==
    /\ phase = "opened" /\ last.op = "read_line" /\ last.kind = "none"
    /\ files = <<"a", "b">>
    /\ LineCount("a") = 1
    /\ reads = MaxLineCount + 2

\* C3: after open() there is one open handle per requested file, and every
\* record has one slot per requested file, slot i read from the i-th file.
C3_OneSlotPerRequestedFile ==
    phase = "opened" =>
        /\ Len(file_handles) = Len(files)
        /\ ReadRecord =>
              /\ Len(last.items) = Len(files)
              /\ \A i \in 1..Len(files) : last.items[i] = ExpectedSlot(i, "")

\* C4: once close() has returned, no file this reader ever opened is open.
C4_NothingOpenAfterClose ==
    last.op = "close" => OpenHandles = {}

\* C5: close() never raises, and when it returns every handle of the reader is
\* closed, whichever of the individual closes failed.
C5_CloseNeverRaises ==
    last.op = "close" =>
        /\ last.kind = "ok"
        /\ \A i \in 1..Len(file_handles) : heap[file_handles[i].h].closed

\* C5's case: a close() of two handles where closing the first one failed.
C5_Witness ==
    /\ last.op = "close"
    /\ Len(file_handles) = 2
    /\ last.hs # <<>>
    /\ last.hs[1] = file_handles[1].h

\* C6: when control has left a `with` block, every file opened on entry is
\* closed.
C6_EnteredAreClosedOnExit ==
    last.op = "exit" => \A i \in 1..Len(entered) : heap[entered[i]].closed

----------------------------------------------------------------------------
(* The scan engine's claims. *)

Range(seq) == {seq[i] : i \in 1..Len(seq)}

\* The place of v in seq, 0 when it is not in it.
Index(seq, v) == IF \E i \in 1..Len(seq) : seq[i] = v
                 THEN CHOOSE i \in 1..Len(seq) : seq[i] = v ELSE 0

EntryAt(path_) == CHOOSE f \in Universe : EntryPath(f) = path_

\* Whether directory q is directory p or lies below it.
RECURSIVE DirUnder(_, _)
DirUnder(q, p) == q = p \/ (q # Root /\ DirUnder(EntryAt(q).parent, p))

\* The entries of the subtree of directory d.
Below(d) == {f \in tree : DirUnder(f.parent, EntryPath(d))}

\* The entries a scan visits.
Reach == IF recursive THEN tree ELSE Children(Root)

ScanDone == scan_pc = "done" /\ ~scan_failed

ScanBroke == scan_pc = "done" /\ scan_failed

\* C7 as claimed: a scan that fails after some entries were processed does not
\* raise and returns the results accumulated before the failure.
C7_PartialResultsReturned ==
    (ScanBroke /\ accumulated # <<>>) =>
        returned = [kind |-> "list", value |-> accumulated]

\* C7 as amended: a scan that fails does not raise; it returns the decorator's
\* value_to_return_on_error and none of the results accumulated before the
\* failure.
C7_FailureReturnsOnErrorValue ==
    ScanBroke => returned = [kind |-> "value_to_return_on_error", value |-> <<>>]

\* C7's case: the scan failed with at least two results already accumulated.
C7_Witness == ScanBroke /\ Len(accumulated) >= 2

C8Tree ==
    {DirEntry("r", "x.txt", FALSE), DirEntry("r", "y.log", FALSE),
     DirEntry("r", "sub", TRUE), DirEntry("r/sub", "z.txt", FALSE)}

C8Case == ScanDone /\ tree = C8Tree /\ on_entry_found_callback = None

\* C8 as claimed: with no callback the scan of {x.txt, y.log, sub/z.txt} yields
\* only x.txt and y.log when not recursive, and the three files when recursive.
C8_OnlyTheFiles ==
    C8Case =>
        /\ returned.kind = "list"
        /\ Range(returned.value) =
              IF recursive THEN {"r/x.txt", "r/y.log", "r/sub/z.txt"}
              ELSE {"r/x.txt", "r/y.log"}

\* C8 as amended: the result also holds the directory sub: x.txt, y.log and sub
\* when not recursive; x.txt, y.log, sub/z.txt and sub when recursive, each
\* once, with sub/z.txt immediately before sub.
C8_FilesAndTheDirectory ==
    C8Case =>
        /\ returned.kind = "list"
        /\ Range(returned.value) =
              IF recursive THEN {"r/x.txt", "r/y.log", "r/sub/z.txt", "r/sub"}
              ELSE {"r/x.txt", "r/y.log", "r/sub"}
        /\ Len(returned.value) = IF recursive THEN 4 ELSE 3
        /\ recursive =>
              Index(returned.value, "r/sub/z.txt") + 1 = Index(returned.value, "r/sub")

C8_Witness == C8Case /\ recursive /\ Len(returned.value) = 4

\* The callback's results on the entries it was invoked on, None left out.
ResultsOfCalled ==
    SelectSeq([i \in 1..Len(called) |->
                  on_entry_found(on_entry_found_callback, EntryAt(called[i])).value],
              LAMBDA v : v # None)

\* C9: the callback is invoked exactly once on every entry of the scan's reach,
\* on the same entries in the same order whatever it returns; the result is its
\* results that are not None, in that order; with no callback it is the path
\* of every visited entry.
C9_CallbackContract ==
    ScanDone =>
        /\ Len(called) = Cardinality(Reach)
        /\ Range(called) = {EntryPath(f) : f \in Reach}
        /\ called = recursion(None, Root).called
        /\ returned = [kind |-> "list", value |-> ResultsOfCalled]
        /\ on_entry_found_callback = None => returned.value = called

\* C9's case: a recursive scan whose callback returns "" for every entry; the
\* result keeps every one of them.
C9_Witness ==
    /\ ScanDone /\ recursive
    /\ on_entry_found_callback = "blank"
    /\ Len(called) >= 4
    /\ returned.value = [i \in 1..Len(called) |-> ""]

\* C10: in a recursive scan the entries of a directory's subtree are visited
\* contiguously and immediately before the directory itself, and the entries
\* of one directory in the host's order, so with no callback the result is in
\* that order; a scan that is not recursive visits entries of Root only.
C10_SubtreeBeforeDirectory ==
    ScanDone =>
        /\ \A path_ \in Directories :
              \A i, j \in 1..Len(scandir(path_)) :
                 (i < j /\ (recursive \/ path_ = Root)) =>
                    Index(called, EntryPath(scandir(path_)[i]))
                       < Index(called, EntryPath(scandir(path_)[j]))
        /\ recursive =>
              \A d \in {f \in tree : f.is_dir} :
                 LET k == Index(called, EntryPath(d))
                     n == Cardinality(Below(d))
                 IN  {Index(called, EntryPath(f)) : f \in Below(d)} = (k - n)..(k - 1)
        /\ ~recursive => \A i \in 1..Len(called) : EntryAt(called[i]).parent = Root
        /\ on_entry_found_callback = None => returned.value = called

\* C10's case: a recursive scan of a tree two directories deep.
C10_Witness ==
    /\ ScanDone /\ recursive /\ on_entry_found_callback = None
    /\ tree = Universe
    /\ Len(returned.value) = 7

\* The result of the scan with no callback: the path of every visited entry.
DefaultResult == recursion(None, Root).results

IsDirectoryPath(path_) == EntryAt(path_).is_dir

IsFilePath(path_) == ~EntryAt(path_).is_dir

\* C13: each entry is emitted by exactly one of directories_only and
\* files_only, so their scans are the directories and the files of the scan
\* with no callback, in its order; file_names_only emits for the entries
\* files_only emits for, the name in place of the path.
C13_PredefinedCallbacksPartition ==
    ScanDone =>
        /\ \A f \in tree :
              /\ (directories_only(f) = None) # (files_only(f) = None)
              /\ directories_only(f) # None => (f.is_dir /\ directories_only(f) = EntryPath(f))
              /\ files_only(f) # None => (~f.is_dir /\ files_only(f) = EntryPath(f))
              /\ (file_names_only(f) = None) = (files_only(f) = None)
              /\ file_names_only(f) # None => file_names_only(f) = f.name
        /\ on_entry_found_callback = "directories_only" =>
              returned.value = SelectSeq(DefaultResult, IsDirectoryPath)
        /\ on_entry_found_callback = "files_only" =>
              returned.value = SelectSeq(DefaultResult, IsFilePath)
        /\ on_entry_found_callback = "file_names_only" =>
              LET paths == SelectSeq(DefaultResult, IsFilePath)
              IN  returned.value = [i \in 1..Len(paths) |-> EntryAt(paths[i]).name]

\* C13's case: a recursive scan for file names of a tree that holds the name
\* x.txt in two directories.
C13_Witness ==
    /\ ScanDone /\ recursive
    /\ on_entry_found_callback = "file_names_only"
    /\ tree = Universe
    /\ Len(returned.value) = 5
    /\ Cardinality(Range(returned.value)) = 4

\* C17: read_line on a reader that was never opened, or after close(), does
\* not raise: it returns None, no line of any file, and it leaves the
\* handles as they were.
C17_ReadLineOutsideOpenReturnsNone ==
    [][ ( /\ last'.op = "read_line"
          /\ calls' = calls + 1
          /\ phase \in {"new", "closed"} )
        => ( /\ last'.kind = "none"
             /\ file_handles' = file_handles
             /\ heap' = heap ) ]_vars

\* C17's case: the one read_line since open() came after close(), and the
\* first file of the reader has a line that was never read.
C17_Witness ==
    /\ last.op = "read_line"
    /\ last.kind = "none"
    /\ phase = "closed"
    /\ reads = 1
    /\ Len(file_handles) >= 1
    /\ Len(fs[heap[DictValues(file_handles)[1]].path].lines) >= 1

----------------------------------------------------------------------------
(* The configurable callbacks' claims. *)

\* C11: the callback match_pattern returns never raises; applied to an entry
\* it emits the entry's path exactly when the pattern matches the entry's name
\* from its start, and None otherwise; the pattern is compiled once.
C11_MatchPatternEmitsOnMatch ==
    cb_factory = "match_pattern" =>
        /\ cb_compiled = 1
        /\ \A a \in cb_applied :
              /\ ~a.exc
              /\ a.value = IF StartsWith(a.entry.name, cb_config)
                           THEN EntryPath(a.entry) ELSE None

\* The entries emitted so far.
Emitted == {a.entry : a \in {b \in cb_applied : ~b.exc /\ b.value # None}}

\* C12: the callback file_extensions returns emits an entry, as its path,
\* exactly when the entry's name ends with one of the extensions, whatever
\* their number and order; of a.txt, b.md and c.py it emits a.txt and b.md for
\* ".txt" and ".md"; with no extension it emits nothing.
C12_FileExtensionsEmitsOnSuffix ==
    cb_factory = "file_extensions" =>
        /\ \A a \in cb_applied :
              /\ ~a.exc
              /\ a.value = IF \E i \in 1..Len(cb_config) : EndsWith(a.entry.name, cb_config[i])
                           THEN EntryPath(a.entry) ELSE None
        /\ cb_config = <<>> => Emitted = {}
        /\ (cb_config = <<".txt", ".md">>
               /\ {a.entry.name : a \in cb_applied} = {"a.txt", "b.md", "c.py"}) =>
              {f.name : f \in Emitted} = {"a.txt", "b.md"}

\* C12's case: ".txt" and ".md" applied to a.txt, b.md and c.py.
C12_Witness ==
    /\ cb_factory = "file_extensions"
    /\ cb_config = <<".txt", ".md">>
    /\ {a.entry.name : a \in cb_applied} = {"a.txt", "b.md", "c.py"}
    /\ {f.name : f \in Emitted} = {"a.txt", "b.md"}

----------------------------------------------------------------------------
(* get_next_available_file_name's claims. *)

\* the integers of s, s+k, s+2k, ... below m
Tried == {i \in start_integer..(max_limit - 1) : (i - start_integer) % step = 0}

\* those whose candidate file does not exist
Available ==
    {i \in Tried : path_candidate(name_path, separator, i) \notin existing_files}

Least(S) == CHOOSE i \in S : \A j \in S : i <= j

\* C14: the call returns the candidate of the first integer of
\* s, s+k, s+2k, ... below m whose candidate is not an existing file, and
\* raises OverflowError when there is none; what it returns is never an
\* existing file; with f.txt, f0.txt and f1.txt existing it returns f2.txt.
C14_FirstAvailableCandidate ==
    name_pc = "done" =>
        /\ Available = {} => name_result.kind = "OverflowError"
        /\ Available # {} =>
              /\ name_result.kind = "return"
              /\ name_result.value =
                    path_candidate(name_path, separator, Least(Available))
        /\ name_result.kind = "return" => name_result.value \notin existing_files
        /\ ( /\ name_path = "f.txt" /\ separator = ""
             /\ start_integer = 0 /\ step = 1 /\ max_limit >= 3
             /\ existing_files = {"f.txt", "f0.txt", "f1.txt"} )
           => name_result = [kind |-> "return", value |-> "f2.txt"]

\* C14's case: from 3 in steps of 2, the candidate of 3 exists and the call
\* returns the candidate of 5, whatever files lie in between.
C14_Witness ==
    /\ name_pc = "done"
    /\ name_path = "f.txt" /\ separator = ""
    /\ start_integer = 3 /\ step = 2
    /\ {"f3.txt", "f4.txt"} \subseteq existing_files
    /\ name_result = [kind |-> "return", value |-> "f5.txt"]

\* C14's other case: every candidate below max_limit exists.
C14_WitnessOverflow ==
    /\ name_pc = "done"
    /\ Tried # {} /\ Available = {}
    /\ name_result.kind = "OverflowError"

----------------------------------------------------------------------------
(* The Path class's claims. *)

Constructors ==
    {"Path", "from_user_directory", "from_temp_directory",
     "from_current_working_directory", "from_find_parent_sibling_in_path"}

\* whether the most recent call was a constructor handed the null value
ConstructedFromNull ==
    \/ path_last.op = "Path" /\ path_last.args[1] = None
    \/ /\ path_last.op = "from_find_parent_sibling_in_path"
       /\ find_parent_sibling_from_path(path_last.args[1], path_last.args[2]) = None

\* C15: the stored value of every Path instance is a string and never null,
\* whatever constructors and modifiers were called; a constructor handed null
\* raises ValueError and makes no instance, from_find_parent_sibling_in_path
\* with no sibling up to the root included.
C15_StoredValueIsNeverNull ==
    /\ \A self \in 1..Len(objects) : objects[self] \in STRING /\ objects[self] # None
    /\ ConstructedFromNull =>
          /\ path_last.raised = "ValueError"
          /\ objects = objects_before

\* C15's case: an instance exists and was used, and
\* from_find_parent_sibling_in_path finds no sibling up to the root.
C15_Witness ==
    /\ path_last.op = "from_find_parent_sibling_in_path"
    /\ path_last.args = <<"/w/a/b.txt", "etc">>
    /\ path_last.raised = "ValueError"
    /\ path_last.n = MaxPathCalls
    /\ Len(objects) = 1

\* the transform methods of the claim
Transforms ==
    {"join", "convert_path_to_windows", "convert_path_to_unix",
     "remove_file_name_from_path_if_is_file", "expand_relative_path",
     "remove_extension", "move_to_parent", "strip_path_up_to_node_name",
     "strip_path_up_to_node_name_reversed", "replace_extension", "set_node_at"}

Readers == Properties \cup {"get_node_at", "find_parent_sibling_from_path"}

\* the pure path function that corresponds to a transform method, applied
CorrespondingFunction(op, path, args, working_directory) ==
    CASE op = "join" -> join_all(path, args)
      [] op = "convert_path_to_windows" -> convert_path_to_windows(path)
      [] op = "convert_path_to_unix" -> convert_path_to_unix(path)
      [] op = "remove_file_name_from_path_if_is_file" ->
            remove_file_name_from_path_if_is_file(path)
      [] op = "expand_relative_path" -> expand_relative_path(path, working_directory)
      [] op = "remove_extension" -> remove_extension(path)
      [] op = "move_to_parent" -> get_parent(path)
      [] op = "strip_path_up_to_node_name" ->
            strip_path_up_to_node_name(path, args[1], args[2])
      [] op = "strip_path_up_to_node_name_reversed" ->
            strip_path_up_to_node_name_reversed(path, args[1], args[2])
      [] op = "replace_extension" -> replace_extension(path, args[1])
      [] op = "set_node_at" -> set_node_at(path, args[1], args[2])

\* C16: a transform method stores the result of its pure path function on
\* the previous stored value and returns the same instance; the properties
\* and get_node_at leave every stored value as it was; no other instance
\* changes.
C16_TransformsApplyInPlace ==
    /\ path_last.op \in Transforms =>
          /\ Len(objects) = Len(objects_before)
          /\ \A other \in 1..Len(objects) :
                other # path_last.self => objects[other] = objects_before[other]
          /\ path_last.raised = None =>
                /\ objects[path_last.self] =
                      CorrespondingFunction(path_last.op, objects_before[path_last.self],
                                            path_last.args, cwd)
                /\ path_last.returns = Instance(path_last.self)
          /\ path_last.raised # None => objects = objects_before
    /\ path_last.op \in Readers => objects = objects_before

\* C16's case: a chain, Path("/w/a/b.txt").move_to_parent().join("x", "y.md").
C16_Witness ==
    /\ path_last.op = "join"
    /\ path_last.n = 3
    /\ objects_before = <<"/w/a">>
    /\ objects = <<"/w/a/x/y.md">>

\* C16's other case: of two instances that hold the same value, one is
\* transformed.
C16_WitnessOtherInstance ==
    /\ path_last.op = "remove_extension"
    /\ objects_before = <<"/w/a/b.txt", "/w/a/b.txt">>
    /\ objects = <<"/w/a/b.txt", "/w/a/b">>

====
